---- MODULE Spec2Model ----
(***************************************************************************)
(* interval_map (src/common/interval_map.h) and PGTransaction              *)
(* (src/osd/PGTransaction.h) as state machines.                            *)
(*                                                                         *)
(* Keys are unsigned integers of KeyBits bits (uint64_t scaled down), all  *)
(* key arithmetic is done modulo 2^KeyBits.                                *)
(***************************************************************************)
EXTENDS Integers, Sequences, FiniteSets, TLC

(***************************************************************************)
(* Bounds of the model.                                                    *)
(***************************************************************************)
\* width of the key type K (uint64_t in the program)
KeyBits == 3
\* the standalone interval_map is driven with ranges inside [0, MaxOff)
MaxOff == 4

KeyMod == 2 ^ KeyBits
\* std::numeric_limits<uint64_t>::max()
KeyMax == KeyMod - 1
Keys == 0 .. KeyMax

\* K::operator+ and K::operator- of an unsigned type
Add(a, b) == (a + b) % KeyMod
Sub(a, b) == (a - b + KeyMod) % KeyMod

Min(S) == CHOOSE x \in S : \A y \in S : x <= y
Max(S) == CHOOSE x \in S : \A y \in S : x >= y

\* boost::optional<T>: boost::none is the empty sequence, a value a singleton
none == << >>
Some(x) == << x >>

(***************************************************************************)
(* bufferlist: a sequence of bytes.                                        *)
(***************************************************************************)
\* the payloads the model writes: for each length, the byte patterns
\* (b+1) % 3, (b+2) % 3, ... so that neighbouring bytes of a payload differ
BufBases == {0, 1}
Bufferlists(len) == {[i \in 1 .. len |-> (b + i) % 3] : b \in BufBases}

\* bufferlist::substr_of(other, off, len): the len bytes of other from off
substr_of(other, off, len) == SubSeq(other, off + 1, off + len)

(***************************************************************************)
(* std::map<K, std::pair<K, V>> as a function from the keys present to     *)
(* [len, val]; an iterator is the key it points at, end() is MapEnd.       *)
(***************************************************************************)
MapEnd == KeyMod
map_begin(mm) == Min(DOMAIN mm \cup {MapEnd})
upper_bound(mm, k) == Min({x \in DOMAIN mm : x > k} \cup {MapEnd})
lower_bound(mm, k) == Min({x \in DOMAIN mm : x >= k} \cup {MapEnd})
\* ++it and --it
iter_next(mm, it) == upper_bound(mm, it)
iter_prev(mm, it) == Max({x \in DOMAIN mm : x < it})

\* std::map::insert(value): does nothing when the key is already present
map_insert(mm, k, e) ==
  IF k \in DOMAIN mm THEN mm
  ELSE [x \in DOMAIN mm \cup {k} |-> IF x = k THEN e ELSE mm[x]]

\* std::map::insert(first, last): inserts the elements one by one
RECURSIVE map_insert_range(_, _)
map_insert_range(mm, items) ==
  IF items = << >> THEN mm
  ELSE map_insert_range(map_insert(mm, Head(items).first, Head(items).second),
                        Tail(items))

\* std::map::erase(first, last)
map_erase_range(mm, first, last) ==
  [x \in {y \in DOMAIN mm : ~(first <= y /\ y < last)} |-> mm[x]]

EmptyMap == [x \in {} |-> 0]

(***************************************************************************)
(* The splitters.  The template parameter S is a tag that selects one.     *)
(***************************************************************************)
\* bufferlist_test_type::splitter (test_interval_map.cc)
splitter(offset, len, bu) == substr_of(bu, offset, len)

\* Splitter that hands a Write on with its whole buffer
Splitter_wholebuffer(offset, len, bu) ==
  CASE bu.type = "Write" -> bu
    [] bu.type = "Zero" -> [type |-> "Zero"]
    [] bu.type = "CloneRange" ->
         [type |-> "CloneRange", from |-> bu.from,
          offset |-> Add(bu.offset, offset), len |-> len]

\* Splitter that leaves a CloneRange's source offset where it was
Splitter_keepoffset(offset, len, bu) ==
  CASE bu.type = "Write" ->
         [type |-> "Write", buffer |-> substr_of(bu.buffer, offset, len),
          fadvise_flags |-> bu.fadvise_flags]
    [] bu.type = "Zero" -> [type |-> "Zero"]
    [] bu.type = "CloneRange" ->
         [type |-> "CloneRange", from |-> bu.from, offset |-> bu.offset, len |-> len]

\* ObjectOperation::Splitter (PGTransaction.h)
Splitter(offset, len, bu) ==
  CASE bu.type = "Write" ->
         [type |-> "Write", buffer |-> substr_of(bu.buffer, offset, len),
          fadvise_flags |-> bu.fadvise_flags]
    [] bu.type = "Zero" -> [type |-> "Zero"]
    [] bu.type = "CloneRange" ->
         [type |-> "CloneRange", from |-> bu.from,
          offset |-> Add(bu.offset, offset), len |-> len]

\* interval_map::s, the splitter object of type S
s(S, offset, len, v) ==
  IF S = "splitter" THEN splitter(offset, len, v) ELSE Splitter(offset, len, v)

(***************************************************************************)
(* interval_map<K, V, S>                                                   *)
(***************************************************************************)
\* get_range without the step back to the entry that starts before off
get_range_fst_nostepback(mm, off) == upper_bound(mm, off)

get_range_fst(mm, off) ==
  LET f0 == upper_bound(mm, off)
      f1 == IF f0 # map_begin(mm) THEN iter_prev(mm, f0) ELSE f0
  IN  IF f1 # MapEnd /\ off >= Add(f1, mm[f1].len) THEN iter_next(mm, f1) ELSE f1

\* get_range that also takes the entry starting at off + len
get_range_lst_upper(mm, off, len) == upper_bound(mm, Add(off, len))

get_range_lst(mm, off, len) == lower_bound(mm, Add(off, len))

get_range(mm, off, len) == << get_range_fst(mm, off), get_range_lst(mm, off, len) >>

\* the keys the loop "for (i = range.first; i != range.second; ++i)" visits
range_keys(mm, range) == {k \in DOMAIN mm : range[1] <= k /\ k < range[2]}

\* erase's loop with the suffix remnant sliced from the front of the value
erase_remnants_frontslice(S, mm, off, len, i) ==
  (IF i < off
     THEN << [first |-> i,
              second |-> [len |-> Sub(off, i),
                          val |-> s(S, 0, Sub(off, i), mm[i].val)]] >>
     ELSE << >>)
  \o
  (IF Add(off, len) < Add(i, mm[i].len)
     THEN LET nlen == Sub(Add(i, mm[i].len), Add(off, len))
          IN  << [first |-> Add(off, len),
                  second |-> [len |-> nlen,
                              val |-> s(S, 0, nlen, mm[i].val)]] >>
     ELSE << >>)

\* erase's loop with the prefix remnant holding the whole value
erase_remnants_prefixwhole(S, mm, off, len, i) ==
  (IF i < off
     THEN << [first |-> i,
              second |-> [len |-> Sub(off, i), val |-> mm[i].val]] >>
     ELSE << >>)
  \o
  (IF Add(off, len) < Add(i, mm[i].len)
     THEN LET nlen == Sub(Add(i, mm[i].len), Add(off, len))
          IN  << [first |-> Add(off, len),
                  second |-> [len |-> nlen,
                              val |-> s(S, Sub(mm[i].len, nlen), nlen, mm[i].val)]] >>
     ELSE << >>)

\* erase's loop with the suffix test as the else branch of the prefix test
erase_remnants_elseif(S, mm, off, len, i) ==
  IF i < off
    THEN << [first |-> i,
             second |-> [len |-> Sub(off, i),
                         val |-> s(S, 0, Sub(off, i), mm[i].val)]] >>
    ELSE IF Add(off, len) < Add(i, mm[i].len)
           THEN LET nlen == Sub(Add(i, mm[i].len), Add(off, len))
                IN  << [first |-> Add(off, len),
                        second |-> [len |-> nlen,
                                    val |-> s(S, Sub(mm[i].len, nlen), nlen,
                                              mm[i].val)]] >>
           ELSE << >>

\* what one iteration of erase's loop appends to to_insert
erase_remnants(S, mm, off, len, i) ==
  (IF i < off
     THEN << [first |-> i,
              second |-> [len |-> Sub(off, i),
                          val |-> s(S, 0, Sub(off, i), mm[i].val)]] >>
     ELSE << >>)
  \o
  (IF Add(off, len) < Add(i, mm[i].len)
     THEN LET nlen == Sub(Add(i, mm[i].len), Add(off, len))
          IN  << [first |-> Add(off, len),
                  second |-> [len |-> nlen,
                              val |-> s(S, Sub(mm[i].len, nlen), nlen, mm[i].val)]] >>
     ELSE << >>)

RECURSIVE erase_to_insert(_, _, _, _, _)
erase_to_insert(S, mm, off, len, keys) ==
  IF keys = {} THEN << >>
  ELSE LET i == Min(keys)
       IN  erase_remnants(S, mm, off, len, i)
             \o erase_to_insert(S, mm, off, len, keys \ {i})

\* erase that removes only the first entry it visited: m.erase(range.first)
erase_firstonly(S, mm, off, len) ==
  IF len = 0 THEN mm
  ELSE LET range == get_range(mm, off, len)
           to_insert == erase_to_insert(S, mm, off, len, range_keys(mm, range))
       IN  map_insert_range(map_erase_range(mm, range[1], iter_next(mm, range[1])),
                            to_insert)

\* erase without its "if (len == 0) return"
erase_noguard(S, mm, off, len) ==
  LET range == get_range(mm, off, len)
      to_insert == erase_to_insert(S, mm, off, len, range_keys(mm, range))
  IN  map_insert_range(map_erase_range(mm, range[1], range[2]), to_insert)

\* erase that inserts the remnants without removing the entries it visited
erase_notremoved(S, mm, off, len) ==
  IF len = 0 THEN mm
  ELSE LET range == get_range(mm, off, len)
           to_insert == erase_to_insert(S, mm, off, len, range_keys(mm, range))
       IN  map_insert_range(mm, to_insert)

erase(S, mm, off, len) ==
  IF len = 0 THEN mm
  ELSE LET range == get_range(mm, off, len)
           to_insert == erase_to_insert(S, mm, off, len, range_keys(mm, range))
       IN  map_insert_range(map_erase_range(mm, range[1], range[2]), to_insert)

\* insert that does not erase the range first
insert_noerase(S, mm, off, len, v) ==
  map_insert(mm, off, [len |-> len, val |-> v])

\* insert that erases one unit more than it inserts
insert_overlong(S, mm, off, len, v) ==
  map_insert(erase(S, mm, off, Add(len, 1)), off, [len |-> len, val |-> v])

\* insert that joins the new entry to an entry ending at off with the same
\* value
insert_coalesce(S, mm, off, len, v) ==
  LET e == erase(S, mm, off, len)
      left == {a \in DOMAIN e : Add(a, e[a].len) = off /\ e[a].val = v}
  IN  IF left = {}
        THEN map_insert(e, off, [len |-> len, val |-> v])
        ELSE LET a == Min(left)
             IN  [e EXCEPT ![a] = [len |-> Add(e[a].len, len), val |-> e[a].val \o v]]

insert(S, mm, off, len, v) ==
  map_insert(erase(S, mm, off, len), off, [len |-> len, val |-> v])

ext_count(mm) == Cardinality(DOMAIN mm)

\* get_containing_range(off, len): the const get_range, as const_iterators
get_containing_range(mm, off, len) == get_range(mm, off, len)

\* begin(), ++ ... end(): the starts in the order the const_iterator yields them
RECURSIVE iterate(_, _)
iterate(mm, it) ==
  IF it = MapEnd THEN << >> ELSE << it >> \o iterate(mm, iter_next(mm, it))

\* the entries erase visits, and the splitter calls it makes
erase_visited(S, mm, off, len) ==
  IF len = 0 THEN 0 ELSE Cardinality(range_keys(mm, get_range(mm, off, len)))
erase_splits(S, mm, off, len) ==
  IF len = 0 THEN 0
  ELSE Len(erase_to_insert(S, mm, off, len, range_keys(mm, get_range(mm, off, len))))

(***************************************************************************)
(* hobject_t: the object ids, their total order and is_temp().             *)
(***************************************************************************)
HoidOrder == << "A", "B", "C", "T" >>
Hoids == {HoidOrder[i] : i \in 1 .. Len(HoidOrder)}
HoidRank(h) == CHOOSE i \in 1 .. Len(HoidOrder) : HoidOrder[i] = h
is_temp(h) == h = "T"

\* the keys of a std::map<hobject_t, ...> in iteration order
RECURSIVE hoids_in_order(_)
hoids_in_order(hs) ==
  IF hs = {} THEN << >>
  ELSE LET h == CHOOSE x \in hs : \A y \in hs : HoidRank(x) <= HoidRank(y)
       IN  << h >> \o hoids_in_order(hs \ {h})

\* std::map::operator[] as a read (a missing key reads as the default value)
\* and as a write
map_at(mm, k, dflt) == IF k \in DOMAIN mm THEN mm[k] ELSE dflt
map_put(mm, k, e) == [x \in DOMAIN mm \cup {k} |-> IF x = k THEN e ELSE mm[x]]
map_erase(mm, k) == [x \in DOMAIN mm \ {k} |-> mm[x]]

(***************************************************************************)
(* PGTransaction::ObjectOperation                                          *)
(***************************************************************************)
Init_None == [type |-> "None"]
Init_Create == [type |-> "Create"]
Init_Clone(source) == [type |-> "Clone", source |-> source]
Init_Rename(source) == [type |-> "Rename", source |-> source]

\* ObjectOperation(): the default member initializers
ObjectOperation ==
  [init_type |-> Init_None, delete_first |-> FALSE, clear_omap |-> FALSE,
   truncate |-> none, attr_updates |-> EmptyMap, omap_updates |-> << >>,
   omap_header |-> none, updated_snaps |-> none, alloc_hint |-> none,
   buffer_updates |-> EmptyMap]

is_delete(op) == op.init_type.type = "None" /\ op.delete_first
is_none(op) == op.init_type.type = "None" /\ ~op.delete_first
is_fresh_object(op) == op.init_type.type # "None"
has_source(op) == op.init_type.type \in {"Clone", "Rename"}

BufferUpdate_Write(bl, flags) == [type |-> "Write", buffer |-> bl, fadvise_flags |-> flags]
BufferUpdate_Zero == [type |-> "Zero"]
BufferUpdate_CloneRange(from, offset, len) ==
  [type |-> "CloneRange", from |-> from, offset |-> offset, len |-> len]

(***************************************************************************)
(* Bounds of the PGTransaction model.                                      *)
(***************************************************************************)
\* mutation calls made on one PGTransaction before it is handed off
MaxCalls == 3
\* write, zero, clone_range and truncate address positions in [0, MaxBufOff]
MaxBufOff == 3

(***************************************************************************)
(* State.                                                                  *)
(*   m        the interval_map<uint64_t, bufferlist, splitter> of the      *)
(*            test fixture                                                 *)
(*   ref      the byte last written at each position and not erased since  *)
(*            (the reference m is compared with)                           *)
(*   call     the last operation invoked: its name and arguments; for the  *)
(*            interval_map also the number of entries it visited and of    *)
(*            splitter calls it made, and a bit n that flips with every    *)
(*            call                                                         *)
(*   op_map   PGTransaction::op_map                                        *)
(*   aborted  an assertion of the PGTransaction has failed                 *)
(*   ncalls   the number of mutation calls made on the PGTransaction       *)
(*   pc       "build" while the owner issues mutations, "walk" inside      *)
(*            safe_create_traverse's while loop, "done" after it returned  *)
(*   dgraph, stack   the locals of safe_create_traverse                    *)
(*   visited  the hoids the visitor t was called with, in call order       *)
(***************************************************************************)
VARIABLES m, ref, call, op_map, aborted, ncalls, pc, dgraph, stack, visited,
          bref, olog, alog

vars == << m, ref, call, op_map, aborted, ncalls, pc, dgraph, stack, visited,
          bref, olog, alog >>
imvars == << m, ref >>
pgvars == << op_map, aborted, ncalls, pc, dgraph, stack, visited, bref, olog, alog >>
travvars == << pc, dgraph, stack, visited >>
\* the record of what the calls so far have asked for, kept beside op_map
logvars == << bref, olog, alog >>

NoCall == [op |-> "none", n |-> 0]

Init ==
  /\ m = EmptyMap
  /\ ref = EmptyMap
  /\ call = NoCall
  /\ op_map = EmptyMap
  /\ aborted = FALSE
  /\ ncalls = 0
  /\ pc = "build"
  /\ dgraph = EmptyMap
  /\ stack = << >>
  /\ visited = << >>
  /\ bref = EmptyMap
  /\ olog = EmptyMap
  /\ alog = EmptyMap

(***************************************************************************)
(* The test fixture's calls on the standalone interval_map.                *)
(***************************************************************************)
\* m.insert(off, len, v) with len > 0 and off + len inside [0, MaxOff]
IMap_insert ==
  \E off \in 0 .. MaxOff - 1 :
    \E len \in 1 .. MaxOff - off :
      \E v \in Bufferlists(len) :
        /\ m' = insert("splitter", m, off, len, v)
        /\ ref' = [p \in DOMAIN ref \cup (off .. off + len - 1) |->
                     IF off <= p /\ p < off + len THEN v[p - off + 1] ELSE ref[p]]
        /\ call' = [op |-> "insert", off |-> off, len |-> len, v |-> v,
                    visited |-> erase_visited("splitter", m, off, len),
                    splits |-> erase_splits("splitter", m, off, len),
                    n |-> 1 - call.n]
        /\ UNCHANGED pgvars

\* m.erase(off, len) with off + len inside [0, MaxOff]
IMap_erase ==
  \E off \in 0 .. MaxOff - 1 :
    \E len \in 0 .. MaxOff - off :
      /\ m' = erase("splitter", m, off, len)
      /\ ref' = [p \in DOMAIN ref \ (off .. off + len - 1) |-> ref[p]]
      /\ call' = [op |-> "erase", off |-> off, len |-> len,
                  visited |-> erase_visited("splitter", m, off, len),
                  splits |-> erase_splits("splitter", m, off, len),
                  n |-> 1 - call.n]
      /\ UNCHANGED pgvars

NextIM == IMap_insert \/ IMap_erase

SpecIM == Init /\ [][NextIM]_vars

\* the insert just made, made again with the same off, len and v
IMap_insert_again ==
  /\ call.op = "insert"
  /\ m' = insert("splitter", m, call.off, call.len, call.v)
  /\ ref' = [p \in DOMAIN ref \cup (call.off .. call.off + call.len - 1) |->
               IF call.off <= p /\ p < call.off + call.len
                 THEN call.v[p - call.off + 1] ELSE ref[p]]
  /\ call' = [op |-> "insert", off |-> call.off, len |-> call.len, v |-> call.v,
              visited |-> erase_visited("splitter", m, call.off, call.len),
              splits |-> erase_splits("splitter", m, call.off, call.len),
              n |-> 1 - call.n, again |-> TRUE]
  /\ UNCHANGED pgvars

\* the erase just made, made again with the same off and len
IMap_erase_again ==
  /\ call.op = "erase"
  /\ m' = erase("splitter", m, call.off, call.len)
  /\ ref' = [p \in DOMAIN ref \ (call.off .. call.off + call.len - 1) |-> ref[p]]
  /\ call' = [op |-> "erase", off |-> call.off, len |-> call.len,
              visited |-> erase_visited("splitter", m, call.off, call.len),
              splits |-> erase_splits("splitter", m, call.off, call.len),
              n |-> 1 - call.n, again |-> TRUE]
  /\ UNCHANGED pgvars

\* SpecRepeat: inserts and erases, any of them possibly made twice in a row
NextRepeat == NextIM \/ IMap_insert_again \/ IMap_erase_again

SpecRepeat == Init /\ [][NextRepeat]_vars

\* m.get_containing_range(off, len) with off + len inside [0, MaxOff]; the
\* call is const and returns the iterator pair (b, e)
IMap_get_containing_range ==
  \E off \in 0 .. MaxOff - 1 :
    \E len \in 0 .. MaxOff - off :
      LET rng == get_containing_range(m, off, len)
      IN  /\ call' = [op |-> "get_containing_range", off |-> off, len |-> len,
                      b |-> rng[1], e |-> rng[2], n |-> 1 - call.n]
          /\ UNCHANGED << imvars, pgvars >>

\* SpecQuery: the map is built by inserts and erases and queried in between
NextQuery == NextIM \/ IMap_get_containing_range

SpecQuery == Init /\ [][NextQuery]_vars

\* the (off, len, v) inserted so far in a run of inserts over disjoint ranges
inserted(c) == IF "done" \in DOMAIN c THEN c.done ELSE {}

\* m.insert(off, len, v) with len > 0 over a range that intersects none of
\* the ranges inserted before
IMap_insert_disjoint ==
  \E off \in 0 .. MaxOff - 1 :
    \E len \in 1 .. MaxOff - off :
      \E v \in Bufferlists(len) :
        /\ \A t \in inserted(call) : ~(t[1] < off + len /\ off < t[1] + t[2])
        /\ m' = insert("splitter", m, off, len, v)
        /\ call' = [op |-> "insert", off |-> off, len |-> len, v |-> v,
                    visited |-> erase_visited("splitter", m, off, len),
                    splits |-> erase_splits("splitter", m, off, len),
                    done |-> inserted(call) \cup {<< off, len, v >>}]
        /\ UNCHANGED << ref, pgvars >>

\* SpecDisjoint: an empty map is filled by inserts over pairwise disjoint
\* ranges, in any order
SpecDisjoint == Init /\ [][IMap_insert_disjoint]_vars

\* m.insert(off, 0, v): an insert of an empty range
IMap_insert_empty ==
  \E off \in 0 .. MaxOff :
    \E v \in Bufferlists(0) :
      /\ m' = insert("splitter", m, off, 0, v)
      /\ call' = [op |-> "insert", off |-> off, len |-> 0, v |-> v,
                  visited |-> erase_visited("splitter", m, off, 0),
                  splits |-> erase_splits("splitter", m, off, 0),
                  done |-> inserted(call)]
      /\ UNCHANGED << ref, pgvars >>

\* SpecEmptyInsert: inserts over disjoint ranges and inserts of empty ranges
NextEmptyInsert == IMap_insert_disjoint \/ IMap_insert_empty

SpecEmptyInsert == Init /\ [][NextEmptyInsert]_vars

(***************************************************************************)
(* PGTransaction: the mutation calls.                                      *)
(*                                                                         *)
(* Mutation(c, ok, om): one call, recorded as c.  ok is the conjunction of *)
(* the call's assertions; when it holds op_map becomes om, otherwise the   *)
(* process aborts and nothing more happens.                                *)
(*                                                                         *)
(* Beside op_map the model keeps a record of the calls that completed:     *)
(*   bref[hoid][p]  what the last write, zero or clone_range covering      *)
(*                  position p of hoid's op put there (it follows the op   *)
(*                  through rename and goes with remove and truncate);     *)
(*   olog[hoid]     the omap_setkeys and omap_rmkeys calls issued on hoid  *)
(*                  since the last omap_clear or remove of hoid;           *)
(*   alog[hoid][k]  what the last setattr, setattrs or rmattr call on hoid *)
(*                  that named k asked for, since the last remove of hoid. *)
(***************************************************************************)
Overlay(f, g) ==
  [p \in DOMAIN f \cup DOMAIN g |-> IF p \in DOMAIN g THEN g[p] ELSE f[p]]

\* what the call c puts at position p of the range it covers
cell_of(c, p) ==
  CASE c.op = "write" ->
         [type |-> "Write", byte |-> c.bl[p - c.off + 1],
          fadvise_flags |-> c.fadvise_flags]
    [] c.op = "zero" -> [type |-> "Zero"]
    [] c.op = "clone_range" ->
         [type |-> "CloneRange", from |-> c.from,
          offset |-> c.fromoff + (p - c.off)]

bref_after(c) ==
  LET cur == map_at(bref, c.hoid, EmptyMap)
  IN  CASE c.op \in {"write", "zero", "clone_range"} ->
             map_put(bref, c.hoid,
                     Overlay(cur, [p \in c.off .. c.off + c.len - 1 |-> cell_of(c, p)]))
        [] c.op = "truncate" ->
             IF c.returned_early THEN bref
             ELSE map_put(bref, c.hoid, [p \in {q \in DOMAIN cur : q < c.off} |-> cur[p]])
        [] c.op = "remove" -> map_erase(bref, c.hoid)
        [] c.op = "rename" ->
             IF c.moved
               THEN map_erase(map_put(bref, c.hoid, map_at(bref, c.source, EmptyMap)),
                              c.source)
               ELSE bref
        [] OTHER -> bref

olog_after(c) ==
  LET cur == map_at(olog, c.hoid, << >>)
  IN  CASE c.op = "omap_setkeys" -> map_put(olog, c.hoid, Append(cur, << "Insert", c.bl >>))
        [] c.op = "omap_rmkeys" -> map_put(olog, c.hoid, Append(cur, << "Remove", c.bl >>))
        [] c.op \in {"omap_clear", "remove"} -> map_put(olog, c.hoid, << >>)
        [] OTHER -> olog

RECURSIVE alog_setattrs(_, _)
alog_setattrs(cur, attrs) ==
  IF DOMAIN attrs = {} THEN cur
  ELSE LET k == CHOOSE x \in DOMAIN attrs : TRUE
       IN  alog_setattrs(map_put(cur, k, Some(attrs[k])), map_erase(attrs, k))

alog_after(c) ==
  LET cur == map_at(alog, c.hoid, EmptyMap)
  IN  CASE c.op = "setattr" -> map_put(alog, c.hoid, map_put(cur, c.attrname, Some(c.bl)))
        [] c.op = "setattrs" -> map_put(alog, c.hoid, alog_setattrs(cur, c.attrs))
        [] c.op = "rmattr" -> map_put(alog, c.hoid, map_put(cur, c.attrname, none))
        [] c.op = "remove" -> map_put(alog, c.hoid, EmptyMap)
        [] OTHER -> alog

Mutation(c, ok, om) ==
  /\ pc = "build" /\ ~aborted /\ ncalls < MaxCalls
  /\ ncalls' = ncalls + 1
  /\ call' = c
  /\ IF ok THEN /\ op_map' = om /\ aborted' = FALSE
                /\ bref' = bref_after(c) /\ olog' = olog_after(c)
                /\ alog' = alog_after(c)
           ELSE /\ op_map' = op_map /\ aborted' = TRUE
                /\ UNCHANGED logvars
  /\ UNCHANGED << imvars, travvars >>

\* "auto &op = op_map[hoid]"
op_at(hoid) == map_at(op_map, hoid, ObjectOperation)

\* get_object_op_for_modify(hoid): the op, and its assertion
get_object_op_for_modify(hoid) == op_at(hoid)
\* get_object_op_for_modify without its assertion
modify_ok_noassert(hoid) == TRUE
modify_ok(hoid) == ~is_delete(op_at(hoid))

\* create that drops the pending delete
create_undelete(hoid) ==
  LET op == op_at(hoid)
  IN  Mutation([op |-> "create", hoid |-> hoid],
               is_none(op) \/ is_delete(op),
               map_put(op_map, hoid,
                       [op EXCEPT !.init_type = Init_Create, !.delete_first = FALSE]))

\* create that starts the new object from an empty op
create_reset(hoid) ==
  LET op == op_at(hoid)
  IN  Mutation([op |-> "create", hoid |-> hoid],
               is_none(op) \/ is_delete(op),
               map_put(op_map, hoid, [ObjectOperation EXCEPT !.init_type = Init_Create]))

create(hoid) ==
  LET op == op_at(hoid)
  IN  Mutation([op |-> "create", hoid |-> hoid],
               is_none(op) \/ is_delete(op),
               map_put(op_map, hoid, [op EXCEPT !.init_type = Init_Create]))

\* clone that looks the source up with op_map[source]
clone_touchsource(target, source) ==
  LET op == op_at(target)
  IN  Mutation([op |-> "clone", hoid |-> target, source |-> source],
               is_none(op) \/ is_delete(op),
               map_put(map_put(op_map, source, op_at(source)), target,
                       [op EXCEPT !.init_type = Init_Clone(source)]))

clone(target, source) ==
  LET op == op_at(target)
  IN  Mutation([op |-> "clone", hoid |-> target, source |-> source],
               is_none(op) \/ is_delete(op),
               map_put(op_map, target, [op EXCEPT !.init_type = Init_Clone(source)]))

\* rename that leaves the op found at source behind
rename_op_nomove(target, source) ==
  [op_at(target) EXCEPT !.init_type = Init_Rename(source)]

\* the op at target after rename: the op found at source if there is one
rename_op(target, source) ==
  LET op == IF source \in DOMAIN op_map THEN op_map[source] ELSE op_at(target)
  IN  [op EXCEPT !.init_type = Init_Rename(source)]

\* rename's assertions without the one on the op at target
rename_ok_anytarget(target, source) == is_temp(source) /\ ~is_temp(target)

\* rename's three assertions
rename_ok(target, source) ==
  /\ is_temp(source)
  /\ ~is_temp(target)
  /\ (is_none(op_at(target)) \/ is_delete(op_at(target)))

rename(target, source) ==
  Mutation([op |-> "rename", hoid |-> target, source |-> source,
            moved |-> source \in DOMAIN op_map],
           rename_ok(target, source),
           map_erase(map_put(op_map, target, rename_op(target, source)), source))

\* remove that only marks the op
remove_op_noreset(op) == [op EXCEPT !.delete_first = TRUE]

\* "op = ObjectOperation(); op.delete_first = true"
remove_op(op) == [ObjectOperation EXCEPT !.delete_first = TRUE]

remove(hoid) ==
  LET op == get_object_op_for_modify(hoid)
  IN  Mutation([op |-> "remove", hoid |-> hoid,
                fresh |-> is_fresh_object(op),
                recorded |-> DOMAIN op.buffer_updates # {}],
               modify_ok(hoid) /\ op.updated_snaps = none,
               map_put(op_map, hoid, remove_op(op)))

\* update_snaps without its own assertion
update_snaps_overwrite(hoid, snaps) ==
  LET op == get_object_op_for_modify(hoid)
  IN  Mutation([op |-> "update_snaps", hoid |-> hoid, snaps |-> snaps],
               modify_ok(hoid),
               map_put(op_map, hoid, [op EXCEPT !.updated_snaps = Some(snaps)]))

update_snaps(hoid, snaps) ==
  LET op == get_object_op_for_modify(hoid)
  IN  Mutation([op |-> "update_snaps", hoid |-> hoid, snaps |-> snaps],
               modify_ok(hoid) /\ op.updated_snaps = none,
               map_put(op_map, hoid, [op EXCEPT !.updated_snaps = Some(snaps)]))

\* what omap_clear on op discards: the omap updates and the header
omap_recorded(op) == Len(op.omap_updates) + Len(op.omap_header)

\* omap_clear that leaves the header
omap_clear_keepheader(hoid) ==
  LET op == get_object_op_for_modify(hoid)
  IN  Mutation([op |-> "omap_clear", hoid |-> hoid, discarded |-> omap_recorded(op)],
               modify_ok(hoid),
               map_put(op_map, hoid,
                       [op EXCEPT !.clear_omap = TRUE, !.omap_updates = << >>]))

omap_clear(hoid) ==
  LET op == get_object_op_for_modify(hoid)
  IN  Mutation([op |-> "omap_clear", hoid |-> hoid, discarded |-> omap_recorded(op)],
               modify_ok(hoid),
               map_put(op_map, hoid,
                       [op EXCEPT !.clear_omap = TRUE, !.omap_updates = << >>,
                                  !.omap_header = none]))

\* truncate that erases max units from off on
truncate_op_lenmax(op, off) ==
  IF op.truncate # none /\ op.truncate[1] >= off
    THEN op
    ELSE [op EXCEPT
            !.buffer_updates = erase("Splitter", @, off, KeyMax),
            !.truncate = IF ~is_fresh_object(op) THEN Some(off) ELSE @]

\* truncate that returns early only for a strictly larger recorded offset
truncate_op_strict(op, off) ==
  IF op.truncate # none /\ op.truncate[1] > off
    THEN op
    ELSE [op EXCEPT
            !.buffer_updates = erase("Splitter", @, off, Sub(KeyMax, off)),
            !.truncate = IF ~is_fresh_object(op) THEN Some(off) ELSE @]

\* the op after truncate(hoid, off)
truncate_op(op, off) ==
  IF op.truncate # none /\ op.truncate[1] >= off
    THEN op
    ELSE [op EXCEPT
            !.buffer_updates = erase("Splitter", @, off, Sub(KeyMax, off)),
            !.truncate = IF ~is_fresh_object(op) THEN Some(off) ELSE @]

truncate(hoid, off) ==
  LET op == get_object_op_for_modify(hoid)
  IN  Mutation([op |-> "truncate", hoid |-> hoid, off |-> off,
                returned_early |-> op.truncate # none /\ op.truncate[1] >= off],
               modify_ok(hoid),
               map_put(op_map, hoid, truncate_op(op, off)))

\* setattrs that keeps what is already recorded for a name (map::insert)
setattrs_updates_insert(attr_updates, attrs) ==
  [k \in DOMAIN attr_updates \cup DOMAIN attrs |->
     IF k \in DOMAIN attr_updates THEN attr_updates[k] ELSE Some(attrs[k])]

\* "for (auto &&i: attrs) op.attr_updates[i.first] = i.second"
setattrs_updates(attr_updates, attrs) ==
  [k \in DOMAIN attr_updates \cup DOMAIN attrs |->
     IF k \in DOMAIN attrs THEN Some(attrs[k]) ELSE attr_updates[k]]

setattrs(hoid, attrs) ==
  LET op == get_object_op_for_modify(hoid)
  IN  Mutation([op |-> "setattrs", hoid |-> hoid, attrs |-> attrs],
               modify_ok(hoid),
               map_put(op_map, hoid,
                       [op EXCEPT !.attr_updates = setattrs_updates(@, attrs)]))

setattr(hoid, attrname, bl) ==
  LET op == get_object_op_for_modify(hoid)
  IN  Mutation([op |-> "setattr", hoid |-> hoid, attrname |-> attrname, bl |-> bl],
               modify_ok(hoid),
               map_put(op_map, hoid,
                       [op EXCEPT !.attr_updates = map_put(@, attrname, Some(bl))]))

rmattr(hoid, attrname) ==
  LET op == get_object_op_for_modify(hoid)
  IN  Mutation([op |-> "rmattr", hoid |-> hoid, attrname |-> attrname],
               modify_ok(hoid),
               map_put(op_map, hoid,
                       [op EXCEPT !.attr_updates = map_put(@, attrname, none)]))

set_alloc_hint(hoid, expected_object_size, expected_write_size, flags) ==
  LET op == get_object_op_for_modify(hoid)
  IN  Mutation([op |-> "set_alloc_hint", hoid |-> hoid],
               modify_ok(hoid),
               map_put(op_map, hoid,
                       [op EXCEPT !.alloc_hint =
                          Some([expected_object_size |-> expected_object_size,
                                expected_write_size |-> expected_write_size,
                                flags |-> flags])]))

write(hoid, off, len, bl, fadvise_flags) ==
  LET op == get_object_op_for_modify(hoid)
  IN  Mutation([op |-> "write", hoid |-> hoid, off |-> off, len |-> len, bl |-> bl,
                fadvise_flags |-> fadvise_flags],
               modify_ok(hoid),
               map_put(op_map, hoid,
                       [op EXCEPT !.buffer_updates =
                          insert("Splitter", @, off, len,
                                 BufferUpdate_Write(bl, fadvise_flags))]))

clone_range(from, to, fromoff, len, tooff) ==
  LET op == get_object_op_for_modify(to)
  IN  Mutation([op |-> "clone_range", hoid |-> to, from |-> from,
                fromoff |-> fromoff, len |-> len, off |-> tooff],
               modify_ok(to),
               map_put(op_map, to,
                       [op EXCEPT !.buffer_updates =
                          insert("Splitter", @, tooff, len,
                                 BufferUpdate_CloneRange(from, fromoff, len))]))

zero(hoid, off, len) ==
  LET op == get_object_op_for_modify(hoid)
  IN  Mutation([op |-> "zero", hoid |-> hoid, off |-> off, len |-> len],
               modify_ok(hoid),
               map_put(op_map, hoid,
                       [op EXCEPT !.buffer_updates =
                          insert("Splitter", @, off, len, BufferUpdate_Zero)]))

\* omap_setkeys that skips a payload equal to the last one recorded
omap_setkeys_dedup(hoid, keys_bl) ==
  LET op == get_object_op_for_modify(hoid)
      e == << "Insert", keys_bl >>
      l == op.omap_updates
  IN  Mutation([op |-> "omap_setkeys", hoid |-> hoid, bl |-> keys_bl],
               modify_ok(hoid),
               map_put(op_map, hoid,
                       [op EXCEPT !.omap_updates =
                          IF l # << >> /\ l[Len(l)] = e THEN l ELSE Append(l, e)]))

omap_setkeys(hoid, keys_bl) ==
  LET op == get_object_op_for_modify(hoid)
  IN  Mutation([op |-> "omap_setkeys", hoid |-> hoid, bl |-> keys_bl],
               modify_ok(hoid),
               map_put(op_map, hoid,
                       [op EXCEPT !.omap_updates = Append(@, << "Insert", keys_bl >>)]))

omap_rmkeys(hoid, keys_bl) ==
  LET op == get_object_op_for_modify(hoid)
  IN  Mutation([op |-> "omap_rmkeys", hoid |-> hoid, bl |-> keys_bl],
               modify_ok(hoid),
               map_put(op_map, hoid,
                       [op EXCEPT !.omap_updates = Append(@, << "Remove", keys_bl >>)]))

omap_setheader(hoid, header) ==
  LET op == get_object_op_for_modify(hoid)
  IN  Mutation([op |-> "omap_setheader", hoid |-> hoid, bl |-> header],
               modify_ok(hoid),
               map_put(op_map, hoid, [op EXCEPT !.omap_header = Some(header)]))

\* nop that leaves op_map alone
nop_noentry(hoid) ==
  LET op == get_object_op_for_modify(hoid)
  IN  Mutation([op |-> "nop", hoid |-> hoid], modify_ok(hoid), op_map)

nop(hoid) ==
  LET op == get_object_op_for_modify(hoid)
  IN  Mutation([op |-> "nop", hoid |-> hoid],
               modify_ok(hoid),
               map_put(op_map, hoid, op))

PGTransaction_empty == op_map = EmptyMap

\* get_bytes_written that counts the entries instead of their lengths
sum_len_entries(mm, keys) == Cardinality(keys)

\* the sum of "ret += j.get_len()" over the entries of one interval_map
RECURSIVE sum_len(_, _)
sum_len(mm, keys) ==
  IF keys = {} THEN 0
  ELSE LET k == Min(keys) IN Add(mm[k].len, sum_len(mm, keys \ {k}))

RECURSIVE bytes_written(_, _)
bytes_written(om, hs) ==
  IF hs = {} THEN 0
  ELSE LET h == CHOOSE x \in hs : TRUE
       IN  Add(sum_len(om[h].buffer_updates, DOMAIN om[h].buffer_updates),
               bytes_written(om, hs \ {h}))

get_bytes_written == bytes_written(op_map, DOMAIN op_map)

(***************************************************************************)
(* PGTransaction::safe_create_traverse                                     *)
(***************************************************************************)
\* populate that pushes a source as a root although it has its own op
RECURSIVE populate_nocount(_, _, _, _)
populate_nocount(om, hs, dg, st) ==
  IF hs = << >> THEN [dgraph |-> dg, stack |-> st]
  ELSE LET hoid == Head(hs)
           op == om[hoid]
       IN  IF has_source(op)
             THEN LET source == op.init_type.source
                      l == map_at(dg, source, << >>)
                      st2 == IF l = << >> THEN Append(st, source) ELSE st
                  IN  populate_nocount(om, Tail(hs),
                                       map_put(dg, source, Append(l, hoid)), st2)
             ELSE populate_nocount(om, Tail(hs), dg, Append(st, hoid))

\* populate that pushes an absent source once for every op that names it
RECURSIVE populate_pushagain(_, _, _, _)
populate_pushagain(om, hs, dg, st) ==
  IF hs = << >> THEN [dgraph |-> dg, stack |-> st]
  ELSE LET hoid == Head(hs)
           op == om[hoid]
       IN  IF has_source(op)
             THEN LET source == op.init_type.source
                      l == map_at(dg, source, << >>)
                      st2 == IF source \notin DOMAIN om
                               THEN Append(st, source) ELSE st
                  IN  populate_pushagain(om, Tail(hs),
                                         map_put(dg, source, Append(l, hoid)), st2)
             ELSE populate_pushagain(om, Tail(hs), dg, Append(st, hoid))

\* "Populate stack with roots, dgraph with edges": the for loop over op_map,
\* from the keys hs still to be looked at
RECURSIVE populate(_, _, _, _)
populate(om, hs, dg, st) ==
  IF hs = << >> THEN [dgraph |-> dg, stack |-> st]
  ELSE LET hoid == Head(hs)
           op == om[hoid]
       IN  IF has_source(op)
             THEN LET source == op.init_type.source
                      l == map_at(dg, source, << >>)
                      st2 == IF l = << >> /\ source \notin DOMAIN om
                               THEN Append(st, source) ELSE st
                  IN  populate(om, Tail(hs), map_put(dg, source, Append(l, hoid)), st2)
             ELSE populate(om, Tail(hs), dg, Append(st, hoid))

\* the call, up to the while loop
safe_create_traverse_populate ==
  /\ pc = "build" /\ ~aborted
  /\ LET r == populate(op_map, hoids_in_order(DOMAIN op_map), EmptyMap, << >>)
     IN  dgraph' = r.dgraph /\ stack' = r.stack
  /\ visited' = << >>
  /\ pc' = "walk"
  /\ call' = [op |-> "safe_create_traverse"]
  /\ UNCHANGED << imvars, logvars, op_map, aborted, ncalls >>

\* the loop with an internal node's children put behind it on the stack
safe_create_traverse_loop_behind ==
  /\ pc = "walk" /\ stack # << >>
  /\ LET cur == Head(stack)
     IN  IF cur \notin DOMAIN dgraph
           THEN /\ visited' = IF cur \in DOMAIN op_map
                                THEN Append(visited, cur) ELSE visited
                /\ stack' = Tail(stack)
                /\ UNCHANGED << dgraph, aborted >>
           ELSE /\ stack' = stack \o dgraph[cur]
                /\ dgraph' = map_erase(dgraph, cur)
                /\ UNCHANGED << visited, aborted >>
  /\ pc' = pc
  /\ UNCHANGED << imvars, logvars, call, op_map, ncalls >>

\* one iteration of "while (!stack.empty())"
safe_create_traverse_loop ==
  /\ pc = "walk" /\ stack # << >>
  /\ LET cur == Head(stack)
     IN  IF cur \notin DOMAIN dgraph
           THEN /\ visited' = IF cur \in DOMAIN op_map
                                THEN Append(visited, cur) ELSE visited
                /\ stack' = Tail(stack)
                /\ UNCHANGED << dgraph, aborted >>
           ELSE IF dgraph[cur] = << >>
                  THEN aborted' = TRUE /\ UNCHANGED << dgraph, stack, visited >>
                  ELSE /\ stack' = dgraph[cur] \o stack
                       /\ dgraph' = map_erase(dgraph, cur)
                       /\ UNCHANGED << visited, aborted >>
  /\ IF aborted' THEN pc' = "done" ELSE pc' = pc
  /\ UNCHANGED << imvars, logvars, call, op_map, ncalls >>

\* the loop ends and the call returns
safe_create_traverse_return ==
  /\ pc = "walk" /\ stack = << >>
  /\ pc' = "done"
  /\ UNCHANGED << imvars, logvars, call, op_map, aborted, ncalls, dgraph, stack, visited >>

safe_create_traverse ==
  \/ safe_create_traverse_populate
  \/ safe_create_traverse_loop
  \/ safe_create_traverse_return

(***************************************************************************)
(* SpecTrav: a PGTransaction is given its objects' init states (create,    *)
(* clone, rename, remove, nop on any object) and is then traversed.        *)
(***************************************************************************)
NextTrav ==
  \/ \E hoid \in Hoids : create(hoid)
  \/ \E target, source \in Hoids : clone(target, source)
  \/ \E target, source \in Hoids : rename(target, source)
  \/ \E hoid \in Hoids : remove(hoid)
  \/ \E hoid \in Hoids : nop(hoid)
  \/ safe_create_traverse

SpecTrav == Init /\ [][NextTrav]_vars

\* SpecTravLive: the same, where a traversal that has started keeps running:
\* the while loop runs in the calling thread and nothing in it blocks
SpecTravLive ==
  /\ SpecTrav
  /\ WF_vars(safe_create_traverse_loop)
  /\ WF_vars(safe_create_traverse_return)

(***************************************************************************)
(* The arguments the PGTransaction specifications draw from.               *)
(***************************************************************************)
\* a non-temp and a temp object
BufHoids == {"A", "T"}
\* the ranges [off, off+len) with len > 0 inside [0, MaxBufOff]
BufRanges ==
  {r \in (0 .. MaxBufOff - 1) \X (1 .. MaxBufOff) : r[1] + r[2] <= MaxBufOff}
\* the payload written for a range of len bytes
Payload(len) == [i \in 1 .. len |-> i % 3]
FadviseFlags == {1}
\* clone_range copies from this offset of the source object
FromOffs == {1}
TruncateOffs == 0 .. MaxBufOff
AttrNames == {"a", "b"}
\* the attribute maps handed to setattrs
AttrMaps == {[k \in ks |-> Payload(1)] : ks \in (SUBSET AttrNames) \ {{}}}
Snaps == {{1}}

(***************************************************************************)
(* SpecBuf: objects are created, cloned, renamed and removed, and their    *)
(* contents written, zeroed, cloned from another object and truncated.     *)
(***************************************************************************)
InitCalls ==
  \/ \E hoid \in BufHoids : create(hoid)
  \/ \E target, source \in BufHoids : clone(target, source)
  \/ \E target, source \in BufHoids : rename(target, source)
  \/ \E hoid \in BufHoids : remove(hoid)

BufferCalls ==
  \/ \E hoid \in BufHoids : \E off \in TruncateOffs : truncate(hoid, off)
  \/ \E hoid \in BufHoids : \E r \in BufRanges : \E flags \in FadviseFlags :
       write(hoid, r[1], r[2], Payload(r[2]), flags)
  \/ \E hoid \in BufHoids : \E r \in BufRanges : zero(hoid, r[1], r[2])
  \/ \E to \in BufHoids : \E from \in BufHoids \ {to} :
       \E r \in BufRanges : \E fromoff \in FromOffs :
         clone_range(from, to, fromoff, r[2], r[1])

NextBuf == InitCalls \/ BufferCalls

SpecBuf == Init /\ [][NextBuf]_vars

(***************************************************************************)
(* SpecClone: objects are created and removed, cloned from any object and  *)
(* given ranges cloned from any other object.                              *)
(***************************************************************************)
\* the target, the source and a third object
CloneHoids == {"A", "B", "T"}

NextClone ==
  \/ \E hoid \in CloneHoids : create(hoid)
  \/ \E hoid \in CloneHoids : remove(hoid)
  \/ \E target, source \in CloneHoids : clone(target, source)
  \/ \E to \in CloneHoids : \E from \in CloneHoids \ {to} :
       \E r \in BufRanges : \E fromoff \in FromOffs :
         clone_range(from, to, fromoff, r[2], r[1])

SpecClone == Init /\ [][NextClone]_vars

(***************************************************************************)
(* SpecTrunc: one object is written and zeroed anywhere below the largest  *)
(* key and truncated to any key, the largest included.                     *)
(***************************************************************************)
\* the ranges [off, off+len) with len > 0 that end at or before KeyMax
WideRanges == {r \in Keys \X (1 .. KeyMax) : r[1] + r[2] <= KeyMax}

NextTrunc ==
  \/ create("A")
  \/ \E off \in Keys : truncate("A", off)
  \/ \E r \in WideRanges : \E flags \in FadviseFlags :
       write("A", r[1], r[2], Payload(r[2]), flags)
  \/ \E r \in WideRanges : zero("A", r[1], r[2])

SpecTrunc == Init /\ [][NextTrunc]_vars

(***************************************************************************)
(* SpecPGT: every mutation call of PGTransaction.                          *)
(***************************************************************************)
MetaCalls ==
  \/ \E hoid \in BufHoids : \E snaps \in Snaps : update_snaps(hoid, snaps)
  \/ \E hoid \in BufHoids : omap_clear(hoid)
  \/ \E hoid \in BufHoids : \E attrs \in AttrMaps : setattrs(hoid, attrs)
  \/ \E hoid \in BufHoids : \E k \in AttrNames : setattr(hoid, k, Payload(2))
  \/ \E hoid \in BufHoids : \E k \in AttrNames : rmattr(hoid, k)
  \/ \E hoid \in BufHoids : set_alloc_hint(hoid, 2, 1, 0)
  \/ \E hoid \in BufHoids : omap_setkeys(hoid, Payload(1))
  \/ \E hoid \in BufHoids : omap_rmkeys(hoid, Payload(1))
  \/ \E hoid \in BufHoids : omap_setheader(hoid, Payload(1))
  \/ \E hoid \in BufHoids : nop(hoid)

NextPGT == InitCalls \/ BufferCalls \/ MetaCalls

SpecPGT == Init /\ [][NextPGT]_vars

(***************************************************************************)
(* SpecMeta: objects are created, cloned, renamed and removed, and their   *)
(* snaps, attributes, omap and allocation hint updated.                    *)
(***************************************************************************)
NextMeta == InitCalls \/ MetaCalls

SpecMeta == Init /\ [][NextMeta]_vars

(***************************************************************************)
(* Claims about the standalone interval_map (SpecIM).                      *)
(***************************************************************************)
\* [a, a + la) and [b, b + lb) share a position
Intersects(a, la, b, lb) == a < b + lb /\ b < a + la
\* the positions some entry of mm covers
Covered(mm) == {p \in 0 .. KeyMax : \E a \in DOMAIN mm : a <= p /\ p < a + mm[a].len}

I1(mm) == \A a, b \in DOMAIN mm : a < b => a + mm[a].len <= b
I2(mm) == \A a \in DOMAIN mm : mm[a].len > 0
I3(mm) ==
  LET it == iterate(mm, map_begin(mm))
  IN  /\ Len(it) = ext_count(mm)
      /\ {it[i] : i \in 1 .. Len(it)} = DOMAIN mm
      /\ \A i \in 1 .. Len(it) - 1 : it[i] < it[i + 1]

\* C1: after every insert (len > 0) and erase the entries of the map do not
\* overlap (I1), are non-empty (I2) and are iterated in strictly ascending
\* start order (I3).
C1_Invariants == I1(m) /\ I2(m) /\ I3(m)

\* an erase has just split one entry into a prefix and a suffix
C1_Witness ==
  /\ call.op = "erase" /\ call.visited = 1 /\ call.splits = 2
  /\ ext_count(m) >= 2

\* C2: after insert(off, len, v) with len > 0 exactly one entry intersects
\* [off, off+len), and it is (off, len, v); every entry that overlapped the
\* range before is gone from the range and survives only as its
\* splitter-computed prefix (in front of off) and suffix (from off+len on).
InsertPost(pre, post, off, len, v) ==
  /\ {a \in DOMAIN post : Intersects(a, post[a].len, off, len)} = {off}
  /\ post[off] = [len |-> len, val |-> v]
  /\ \A a \in DOMAIN pre :
       Intersects(a, pre[a].len, off, len) =>
         /\ IF a < off
              THEN /\ a \in DOMAIN post
                   /\ post[a] = [len |-> off - a,
                                 val |-> splitter(0, off - a, pre[a].val)]
              ELSE a = off \/ a \notin DOMAIN post
         /\ LET n == (a + pre[a].len) - (off + len)
            IN  n > 0 =>
                  /\ off + len \in DOMAIN post
                  /\ post[off + len] =
                       [len |-> n, val |-> splitter(pre[a].len - n, n, pre[a].val)]
  /\ \A a \in DOMAIN post :
       a \in DOMAIN pre \/ a = off
         \/ (a = off + len /\ \E b \in DOMAIN pre : b < a /\ a < b + pre[b].len)

C2_InsertReplacesRange ==
  [][call'.op = "insert" => InsertPost(m, m', call'.off, call'.len, call'.v)]_vars

\* an insert has just overlapped two entries and left a remnant of each
C2_Witness ==
  /\ call.op = "insert" /\ call.visited = 2 /\ call.splits = 2
  /\ call.off \in DOMAIN m /\ m[call.off] = [len |-> call.len, val |-> call.v]
  /\ ext_count(m) = 3

\* C3: read position by position the map equals the reference: a position is
\* covered iff the reference has a byte for it, and the covering entry holds
\* that byte at the position's offset inside the entry.
C3_LastWriterWins ==
  /\ Covered(m) = DOMAIN ref
  /\ \A a \in DOMAIN m :
       /\ Len(m[a].val) = m[a].len
       /\ \A i \in 1 .. m[a].len : m[a].val[i] = ref[a + i - 1]

\* the map holds a slice no insert wrote as such, next to a newer entry
C3_Witness ==
  /\ call.op = "insert" /\ call.splits >= 1
  /\ \E a \in DOMAIN m : m[a].val \notin Bufferlists(m[a].len)
  /\ Covered(m) = DOMAIN ref /\ ext_count(m) >= 2

(***************************************************************************)
(* Claims about safe_create_traverse (SpecTrav).                           *)
(***************************************************************************)
\* the source of hoid's op, if it has one
SourceOf(om, hoid) ==
  IF hoid \in DOMAIN om /\ has_source(om[hoid])
    THEN {om[hoid].init_type.source} ELSE {}

\* the hoids reached from hs by following source edges at most n times
RECURSIVE Ancestors(_, _, _)
Ancestors(om, hs, n) ==
  IF n = 0 THEN {}
  ELSE LET up == UNION {SourceOf(om, h) : h \in hs}
       IN  up \cup Ancestors(om, up, n - 1)

\* no object is, through clones and renames, its own source
Acyclic(om) == \A h \in DOMAIN om : h \notin Ancestors(om, {h}, Cardinality(Hoids))

\* the place of h in the visiting order (0 when it has not been visited)
Pos(seq, h) ==
  IF \E i \in 1 .. Len(seq) : seq[i] = h
    THEN CHOOSE i \in 1 .. Len(seq) : seq[i] = h ELSE 0
NoDuplicates(seq) == \A i, j \in 1 .. Len(seq) : seq[i] = seq[j] => i = j
Elems(seq) == {seq[i] : i \in 1 .. Len(seq)}

\* C4: when the clone/rename graph is acyclic, a finished traversal has
\* called the visitor exactly once for every key of op_map, and at no time
\* during the traversal has an op been visited twice.
C4_VisitsEachOnce ==
  Acyclic(op_map) =>
    /\ pc \in {"walk", "done"} => NoDuplicates(visited)
    /\ pc = "done" =>
         /\ Elems(visited) = DOMAIN op_map
         /\ Len(visited) = Cardinality(DOMAIN op_map)

\* a traversal of three ops, one of them the source of another, has finished
C4_Witness ==
  /\ pc = "done" /\ Acyclic(op_map)
  /\ Cardinality(DOMAIN op_map) = 3 /\ Len(visited) = 3
  /\ \E h \in DOMAIN op_map : SourceOf(op_map, h) \cap DOMAIN op_map # {}

\* C5: when the graph is acyclic, a source that has its own op is visited
\* only after every op cloned or renamed from it: in the finished traversal
\* the target's place is strictly before the source's.
C5_TargetBeforeSource ==
  Acyclic(op_map) =>
    \A target \in DOMAIN op_map :
      \A source \in SourceOf(op_map, target) \cap DOMAIN op_map :
        /\ pc \in {"walk", "done"} /\ Pos(visited, source) > 0 =>
             /\ Pos(visited, target) > 0
             /\ Pos(visited, target) < Pos(visited, source)
        /\ pc = "done" => Pos(visited, source) > 0

\* the chain clone(B, A), clone(C, B) with an op at A was visited C, B, A
C5_Witness ==
  /\ pc = "done"
  /\ DOMAIN op_map = {"A", "B", "C"}
  /\ SourceOf(op_map, "B") = {"A"} /\ SourceOf(op_map, "C") = {"B"}
  /\ visited = << "C", "B", "A" >>

\* C6: the visitor is called only with keys of op_map; a source without an
\* op is on the stack at most once, is never visited, and every op that
\* names it is visited exactly once by the end of the traversal.
C6_AbsentSourceIsRootOnly ==
  pc \in {"walk", "done"} =>
    /\ Elems(visited) \subseteq DOMAIN op_map
    /\ NoDuplicates(stack)
    /\ \A target \in DOMAIN op_map :
         \A source \in SourceOf(op_map, target) \ DOMAIN op_map :
           /\ Pos(visited, source) = 0
           /\ pc = "done" =>
                Cardinality({i \in 1 .. Len(visited) : visited[i] = target}) = 1

\* two ops cloned from the same object, which has no op, were both visited
C6_Witness ==
  /\ pc = "done"
  /\ \E t1, t2 \in DOMAIN op_map :
       /\ t1 # t2
       /\ SourceOf(op_map, t1) = SourceOf(op_map, t2)
       /\ SourceOf(op_map, t1) # {}
       /\ SourceOf(op_map, t1) \cap DOMAIN op_map = {}
       /\ {t1, t2} \subseteq Elems(visited)

(***************************************************************************)
(* Claims about rename (SpecPGT) and truncate (SpecBuf).                   *)
(***************************************************************************)
\* C7: rename(target, source) with an op at source leaves no op at source,
\* and the op at target has init = Rename{source} and the source op's
\* buffer_updates, attr_updates, omap_updates, omap_header, truncate,
\* alloc_hint and updated_snaps.
RenamePost(om, om2, target, source) ==
  /\ source \notin DOMAIN om2
  /\ target \in DOMAIN om2
  /\ om2[target].init_type = Init_Rename(source)
  /\ om2[target].buffer_updates = om[source].buffer_updates
  /\ om2[target].attr_updates = om[source].attr_updates
  /\ om2[target].omap_updates = om[source].omap_updates
  /\ om2[target].omap_header = om[source].omap_header
  /\ om2[target].truncate = om[source].truncate
  /\ om2[target].alloc_hint = om[source].alloc_hint
  /\ om2[target].updated_snaps = om[source].updated_snaps

C7_RenameMovesSourceOp ==
  [][(call'.op = "rename" /\ ~aborted' /\ call'.source \in DOMAIN op_map)
       => RenamePost(op_map, op_map', call'.hoid, call'.source)]_vars

\* a rename has moved an op with a write and one more recorded modification
C7_Witness ==
  /\ call.op = "rename" /\ call.moved /\ ~aborted
  /\ call.source \notin DOMAIN op_map
  /\ \E a \in DOMAIN op_map[call.hoid].buffer_updates :
       op_map[call.hoid].buffer_updates[a].val.type = "Write"
  /\ \/ DOMAIN op_map[call.hoid].attr_updates # {}
     \/ Len(op_map[call.hoid].omap_updates) > 0
     \/ Len(op_map[call.hoid].updated_snaps) > 0

\* C8: on an op that is not a fresh object, truncate(hoid, off) leaves
\* op.truncate = min(previous op.truncate, off).
TruncateMin(prev, off) ==
  IF prev = none THEN Some(off)
  ELSE Some(IF prev[1] <= off THEN prev[1] ELSE off)

C8_TruncateLowersOnly ==
  [][(call'.op = "truncate" /\ ~aborted'
        /\ ~is_fresh_object(op_at(call'.hoid)))
       => op_map'[call'.hoid].truncate
            = TruncateMin(op_at(call'.hoid).truncate, call'.off)]_vars

\* C9: after truncate(hoid, off) returns, no entry of hoid's buffer_updates
\* intersects [off, infinity).
C9_NothingBeyondTruncate ==
  [][(call'.op = "truncate" /\ ~aborted')
       => \A a \in DOMAIN op_map'[call'.hoid].buffer_updates :
            a + op_map'[call'.hoid].buffer_updates[a].len <= call'.off]_vars

\* C10: truncate(hoid, off) changes nothing when op.truncate is Some(t) with
\* t >= off; otherwise it erases buffer_updates over [off, off + (max - off))
\* (entries in front of off stay, an entry across off keeps its prefix,
\* entries from off on go) and sets op.truncate = off on an op with
\* init = None only, leaving it as it was on a fresh object.  No other field
\* and no other op changes.
TruncatePost(op, op2, off) ==
  IF op.truncate # none /\ op.truncate[1] >= off
    THEN op2 = op
    ELSE /\ op2.buffer_updates = erase("Splitter", op.buffer_updates, off, KeyMax - off)
         /\ \A a \in DOMAIN op.buffer_updates :
              LET e == op.buffer_updates[a]
              IN  IF a + e.len <= off
                    THEN a \in DOMAIN op2.buffer_updates /\ op2.buffer_updates[a] = e
                    ELSE IF a < off
                           THEN /\ a \in DOMAIN op2.buffer_updates
                                /\ op2.buffer_updates[a] =
                                     [len |-> off - a, val |-> Splitter(0, off - a, e.val)]
                           ELSE a \notin DOMAIN op2.buffer_updates
         /\ DOMAIN op2.buffer_updates \subseteq DOMAIN op.buffer_updates
         /\ op2.truncate = IF op.init_type = Init_None THEN Some(off) ELSE op.truncate
         /\ op2 = [op EXCEPT !.buffer_updates = op2.buffer_updates,
                             !.truncate = op2.truncate]

C10_TruncateStep ==
  [][(call'.op = "truncate" /\ ~aborted')
       => /\ TruncatePost(op_at(call'.hoid), op_map'[call'.hoid], call'.off)
          /\ \A h \in DOMAIN op_map' \ {call'.hoid} :
               h \in DOMAIN op_map /\ op_map'[h] = op_map[h]
          /\ DOMAIN op_map' = DOMAIN op_map \cup {call'.hoid}]_vars

\* a truncate on a fresh object has cut an entry and left op.truncate unset
C10_Witness ==
  /\ call.op = "truncate" /\ ~aborted /\ ~call.returned_early
  /\ is_fresh_object(op_map[call.hoid])
  /\ op_map[call.hoid].truncate = none
  /\ \E a \in DOMAIN op_map[call.hoid].buffer_updates :
       a + op_map[call.hoid].buffer_updates[a].len = call.off

\* a truncate has returned early on an op that records a truncate
C10_WitnessEarlyReturn ==
  /\ call.op = "truncate" /\ ~aborted /\ call.returned_early
  /\ op_map[call.hoid].truncate # none /\ op_map[call.hoid].truncate[1] > call.off
  /\ DOMAIN op_map[call.hoid].buffer_updates # {}

(***************************************************************************)
(* Claims about the assertions of the mutation calls (SpecPGT, SpecMeta).  *)
(***************************************************************************)
\* the step is a mutation call (completed or aborted)
Called == ncalls' = ncalls + 1

\* the calls that go through get_object_op_for_modify
ModifyOps ==
  {"remove", "update_snaps", "omap_clear", "truncate", "setattrs", "setattr",
   "rmattr", "set_alloc_hint", "write", "clone_range", "zero", "omap_setkeys",
   "omap_rmkeys", "omap_setheader", "nop"}

\* C11: on a hoid whose op is_delete, every call through
\* get_object_op_for_modify aborts and records nothing; create and clone are
\* accepted, and rename onto it is accepted when its own two assertions on
\* the hoids hold.
C11_DeletedOpRejectsModify ==
  [][(Called /\ call'.hoid \in DOMAIN op_map /\ is_delete(op_map[call'.hoid]))
       => /\ call'.op \in ModifyOps => (aborted' /\ op_map' = op_map)
          /\ call'.op \in {"create", "clone"} =>
               /\ ~aborted'
               /\ ~is_delete(op_map'[call'.hoid])
          /\ call'.op = "rename" =>
               (~aborted' <=> (is_temp(call'.source) /\ ~is_temp(call'.hoid)))
          /\ call'.op \in ModifyOps \cup {"create", "clone", "rename"}]_vars

\* a write on a removed object has aborted
C11_Witness ==
  /\ call.op = "write" /\ aborted
  /\ call.hoid \in DOMAIN op_map /\ is_delete(op_map[call.hoid])

\* C12: create and clone complete exactly when the addressed op has
\* init = None (is_none or is_delete); they then set init to Create,
\* respectively Clone{source}, and change no other field of the op and no
\* other op, so what was recorded on the op before stays.
InitOnlyChanged(op, op2) ==
  /\ op2.delete_first = op.delete_first
  /\ op2.clear_omap = op.clear_omap
  /\ op2.truncate = op.truncate
  /\ op2.attr_updates = op.attr_updates
  /\ op2.omap_updates = op.omap_updates
  /\ op2.omap_header = op.omap_header
  /\ op2.updated_snaps = op.updated_snaps
  /\ op2.alloc_hint = op.alloc_hint
  /\ op2.buffer_updates = op.buffer_updates

C12_CreateCloneSetInitOnly ==
  [][(Called /\ call'.op \in {"create", "clone"})
       => LET hoid == call'.hoid
              op == op_at(hoid)
          IN  /\ aborted' <=> op.init_type # Init_None
              /\ ~aborted' =>
                   /\ op_map'[hoid].init_type =
                        IF call'.op = "create" THEN Init_Create
                        ELSE Init_Clone(call'.source)
                   /\ InitOnlyChanged(op, op_map'[hoid])
                   /\ DOMAIN op_map' = DOMAIN op_map \cup {hoid}
                   /\ \A h \in DOMAIN op_map \ {hoid} : op_map'[h] = op_map[h]]_vars

\* a create has turned an op with a write and a truncate into a fresh object
C12_Witness ==
  /\ call.op = "create" /\ ~aborted
  /\ op_map[call.hoid].init_type = Init_Create
  /\ DOMAIN op_map[call.hoid].buffer_updates # {}
  /\ op_map[call.hoid].truncate # none

\* C13: rename(target, source) aborts when source is not a temp object, when
\* target is a temp object, or when the op at target has init Create, Clone
\* or Rename; in every other case it completes.
C13_RenameAssertions ==
  [][(Called /\ call'.op = "rename")
       => (aborted' <=>
             \/ ~is_temp(call'.source)
             \/ is_temp(call'.hoid)
             \/ op_at(call'.hoid).init_type.type \in {"Create", "Clone", "Rename"})]_vars

\* a rename from a temp to a non-temp object has aborted on a fresh target
C13_Witness ==
  /\ call.op = "rename" /\ aborted
  /\ is_temp(call.source) /\ ~is_temp(call.hoid)
  /\ call.hoid \in DOMAIN op_map /\ is_fresh_object(op_map[call.hoid])

\* C14: remove(hoid) completes on an op that is not is_delete and has no
\* updated_snaps; afterwards the op is the default one with delete_first set:
\* init = None (is_delete), no buffer, attr or omap updates, truncate,
\* omap_header, alloc_hint and updated_snaps unset, clear_omap false.
C14_RemoveResets ==
  [][(Called /\ call'.op = "remove")
       => LET op == op_at(call'.hoid)
          IN  /\ ~aborted' <=> (~is_delete(op) /\ op.updated_snaps = none)
              /\ ~aborted' =>
                   LET op2 == op_map'[call'.hoid]
                   IN  /\ op2.init_type = Init_None /\ op2.delete_first
                       /\ is_delete(op2)
                       /\ DOMAIN op2.buffer_updates = {}
                       /\ DOMAIN op2.attr_updates = {}
                       /\ op2.omap_updates = << >>
                       /\ op2.truncate = none
                       /\ op2.omap_header = none
                       /\ op2.alloc_hint = none
                       /\ op2.updated_snaps = none
                       /\ op2.clear_omap = FALSE]_vars

\* a remove has reset a fresh object that had a buffer update
C14_Witness ==
  /\ call.op = "remove" /\ ~aborted /\ call.fresh /\ call.recorded
  /\ is_delete(op_map[call.hoid])

(***************************************************************************)
(* Claims about snaps, omap and attribute updates (SpecMeta).              *)
(***************************************************************************)
\* the step is a rename that found an op at its source
Moved == call'.op = "rename" /\ ~aborted' /\ call'.moved

\* C15: update_snaps(hoid, s) completes exactly when the op is not is_delete
\* and its updated_snaps is unset, and then sets it to s; while it is set,
\* update_snaps(hoid, ...) and remove(hoid) abort, and no call changes it
\* (a rename moves it with the op it belongs to).
C15_UpdatedSnapsOnce ==
  [][Called =>
       /\ call'.op = "update_snaps" =>
            LET op == op_at(call'.hoid)
            IN  /\ ~aborted' <=> (~is_delete(op) /\ op.updated_snaps = none)
                /\ ~aborted' => op_map'[call'.hoid].updated_snaps = Some(call'.snaps)
       /\ (call'.op = "remove" /\ op_at(call'.hoid).updated_snaps # none) => aborted'
       /\ \A h \in DOMAIN op_map :
            op_map[h].updated_snaps # none =>
              IF Moved /\ h = call'.source
                THEN op_map'[call'.hoid].updated_snaps = op_map[h].updated_snaps
                ELSE IF Moved /\ h = call'.hoid
                       THEN TRUE
                       ELSE /\ h \in DOMAIN op_map'
                            /\ op_map'[h].updated_snaps = op_map[h].updated_snaps]_vars

\* a second update_snaps on an op that has its snaps has aborted
C15_Witness ==
  /\ call.op = "update_snaps" /\ aborted
  /\ ~is_delete(op_map[call.hoid])
  /\ op_map[call.hoid].updated_snaps # none

\* C16: omap_clear(hoid) sets clear_omap, empties omap_updates and unsets
\* omap_header of hoid's op, and leaves the op's other fields and every
\* other op as they were.
C16_OmapClear ==
  [][(Called /\ call'.op = "omap_clear" /\ ~aborted')
       => LET op == op_at(call'.hoid)
              op2 == op_map'[call'.hoid]
          IN  /\ op2.clear_omap = TRUE
              /\ op2.omap_updates = << >>
              /\ op2.omap_header = none
              /\ op2.init_type = op.init_type
              /\ op2.delete_first = op.delete_first
              /\ op2.attr_updates = op.attr_updates
              /\ op2.buffer_updates = op.buffer_updates
              /\ op2.truncate = op.truncate
              /\ op2.updated_snaps = op.updated_snaps
              /\ op2.alloc_hint = op.alloc_hint
              /\ \A h \in DOMAIN op_map \ {call'.hoid} :
                   h \in DOMAIN op_map' /\ op_map'[h] = op_map[h]]_vars

\* an omap_clear has discarded a recorded omap update and a header
C16_Witness ==
  /\ call.op = "omap_clear" /\ ~aborted /\ call.discarded = 2
  /\ op_map[call.hoid].clear_omap
  /\ op_map[call.hoid].omap_updates = << >>
  /\ op_map[call.hoid].omap_header = none

\* the omap_updates of hoid (none when it has no op)
omap_of(om, hoid) == IF hoid \in DOMAIN om THEN om[hoid].omap_updates ELSE << >>

\* C17 as stated: for every hoid, omap_updates is exactly the sequence of
\* omap_setkeys and omap_rmkeys calls issued on that hoid since its last
\* omap_clear or remove, in call order.
C17_OmapLogPerHoid ==
  \A hoid \in Hoids : omap_of(op_map, hoid) = map_at(olog, hoid, << >>)

\* C17, amended: omap_setkeys and omap_rmkeys each append exactly one element
\* (Insert, respectively Remove, with the payload) at the end of hoid's
\* omap_updates, also when it equals one already there; omap_clear and
\* remove empty it; a rename that finds an op at source gives target the
\* source's omap_updates and leaves none at source; no other call changes
\* the omap_updates of any hoid.
C17_OmapAppendOnly ==
  [][(Called /\ ~aborted') =>
       \A h \in Hoids :
         LET old == omap_of(op_map, h)
             new == omap_of(op_map', h)
         IN  IF h = call'.hoid /\ call'.op = "omap_setkeys"
               THEN new = Append(old, << "Insert", call'.bl >>)
             ELSE IF h = call'.hoid /\ call'.op = "omap_rmkeys"
               THEN new = Append(old, << "Remove", call'.bl >>)
             ELSE IF h = call'.hoid /\ call'.op \in {"omap_clear", "remove"}
               THEN new = << >>
             ELSE IF Moved /\ h = call'.hoid
               THEN new = omap_of(op_map, call'.source)
             ELSE IF Moved /\ h = call'.source
               THEN new = << >> /\ h \notin DOMAIN op_map'
             ELSE new = old]_vars

\* an op that came by rename holds two updates with the same payload, the
\* second appended after the rename
C17_Witness ==
  /\ call.op = "omap_setkeys" /\ ~aborted
  /\ op_map[call.hoid].init_type.type = "Rename"
  /\ Len(op_map[call.hoid].omap_updates) = 2
  /\ op_map[call.hoid].omap_updates[1] = op_map[call.hoid].omap_updates[2]

\* the attr_updates of hoid (none when it has no op)
attrs_of(om, hoid) == IF hoid \in DOMAIN om THEN om[hoid].attr_updates ELSE EmptyMap

\* C18 as stated: for every hoid and name k, attr_updates[k] is what the last
\* setattr, setattrs or rmattr call on the hoid that named k asked for since
\* the hoid's last remove, and names no such call named are absent.
C18_AttrLogPerHoid ==
  \A hoid \in Hoids : attrs_of(op_map, hoid) = map_at(alog, hoid, EmptyMap)

\* C18, amended: setattr(hoid, k, v) sets attr_updates[k] = Some(v) and
\* rmattr(hoid, k) sets it to None, leaving the other names as they were;
\* setattrs(hoid, kvs) has the effect of setattr for each pair; remove
\* empties attr_updates; a rename that finds an op at source gives target
\* the source's attr_updates and leaves none at source; no other call
\* changes the attr_updates of any hoid.
C18_AttrLastWriterWins ==
  [][(Called /\ ~aborted') =>
       \A h \in Hoids :
         LET old == attrs_of(op_map, h)
             new == attrs_of(op_map', h)
         IN  IF h = call'.hoid /\ call'.op = "setattr"
               THEN new = [k \in DOMAIN old \cup {call'.attrname} |->
                             IF k = call'.attrname THEN Some(call'.bl) ELSE old[k]]
             ELSE IF h = call'.hoid /\ call'.op = "rmattr"
               THEN new = [k \in DOMAIN old \cup {call'.attrname} |->
                             IF k = call'.attrname THEN none ELSE old[k]]
             ELSE IF h = call'.hoid /\ call'.op = "setattrs"
               THEN new = alog_setattrs(old, call'.attrs)
             ELSE IF h = call'.hoid /\ call'.op = "remove"
               THEN new = EmptyMap
             ELSE IF Moved /\ h = call'.hoid
               THEN new = attrs_of(op_map, call'.source)
             ELSE IF Moved /\ h = call'.source
               THEN new = EmptyMap /\ h \notin DOMAIN op_map'
             ELSE new = old]_vars

\* after a setattrs of both names, a setattr of one and an rmattr of the
\* other the op holds the setattr's value and the removal
C18_Witness ==
  /\ call.op = "rmattr" /\ ~aborted /\ ncalls = 3
  /\ DOMAIN op_map[call.hoid].attr_updates = AttrNames
  /\ op_map[call.hoid].attr_updates[call.attrname] = none
  /\ \E k \in AttrNames : op_map[call.hoid].attr_updates[k] = Some(Payload(2))

(***************************************************************************)
(* Claims about the buffer updates of a PGTransaction (SpecBuf).           *)
(***************************************************************************)
\* the (object, position) pairs some buffer update covers
CoveredPairs ==
  UNION {{<< h, p >> : p \in Covered(op_map[h].buffer_updates)} : h \in DOMAIN op_map}

\* C19: get_bytes_written() is the number of distinct (object, position)
\* pairs that an entry of some object's buffer_updates covers: entries do
\* not overlap, so a position overwritten, truncated away, removed or
\* renamed away is counted at most once.
C19_BytesWritten ==
  /\ get_bytes_written = Cardinality(CoveredPairs)
  /\ \A h \in DOMAIN op_map : I1(op_map[h].buffer_updates)

\* two objects hold buffer updates, one of them a write cut in three by a
\* later write of its middle byte
C19_Witness ==
  /\ call.op = "write" /\ ~aborted
  /\ Cardinality({h \in DOMAIN op_map : DOMAIN op_map[h].buffer_updates # {}}) = 2
  /\ \E h \in DOMAIN op_map : ext_count(op_map[h].buffer_updates) = 3
  /\ get_bytes_written = 4

\* the entry e at a agrees, position by position, with what the calls last
\* put at the positions it covers
EntryMatches(cells, a, e) ==
  /\ e.val.type = "Write" => Len(e.val.buffer) = e.len
  /\ e.val.type = "CloneRange" => e.val.len = e.len
  /\ \A i \in 0 .. e.len - 1 :
       /\ a + i \in DOMAIN cells
       /\ LET c == cells[a + i]
          IN  /\ c.type = e.val.type
              /\ c.type = "Write" =>
                   /\ e.val.buffer[i + 1] = c.byte
                   /\ e.val.fadvise_flags = c.fadvise_flags
              /\ c.type = "CloneRange" =>
                   /\ e.val.from = c.from
                   /\ e.val.offset + i = c.offset

\* C20: every entry (s, l, v) of an object's buffer_updates is the slice of
\* the update that last covered [s, s+l): for a write(hoid, off, len, X,
\* flags) it is Write{X[s-off .. s-off+l), flags}, for a zero it is Zero{};
\* positions no update covers any more have no entry; and right after a
\* write, zero or clone_range the entry at off is (len, the call's variant).
C20_RemnantsAreSlices ==
  /\ \A h \in DOMAIN op_map :
       LET bu == op_map[h].buffer_updates
           cells == map_at(bref, h, EmptyMap)
       IN  /\ Covered(bu) = DOMAIN cells
           /\ \A a \in DOMAIN bu : EntryMatches(cells, a, bu[a])
  /\ (call.op \in {"write", "zero", "clone_range"} /\ ~aborted) =>
       LET bu == op_map[call.hoid].buffer_updates
       IN  /\ call.off \in DOMAIN bu
           /\ bu[call.off] =
                [len |-> call.len,
                 val |-> CASE call.op = "write" ->
                                BufferUpdate_Write(call.bl, call.fadvise_flags)
                           [] call.op = "zero" -> BufferUpdate_Zero
                           [] call.op = "clone_range" ->
                                BufferUpdate_CloneRange(call.from, call.fromoff, call.len)]
           /\ \A a \in DOMAIN bu \ {call.off} :
                ~Intersects(a, bu[a].len, call.off, call.len)

\* a zero in the middle of a three-byte write has left the write's first
\* and last byte as two Write entries around the Zero
C20_Witness ==
  /\ call.op = "zero" /\ ~aborted /\ call.len = 1
  /\ LET bu == op_map[call.hoid].buffer_updates
     IN  /\ ext_count(bu) = 3
         /\ call.off - 1 \in DOMAIN bu /\ call.off + 1 \in DOMAIN bu
         /\ bu[call.off - 1].val = BufferUpdate_Write(<< Payload(3)[1] >>, 1)
         /\ bu[call.off + 1].val = BufferUpdate_Write(<< Payload(3)[3] >>, 1)
         /\ bu[call.off].val = BufferUpdate_Zero

(***************************************************************************)
(* Claims about erase, the remnants and coalescing (SpecIM).               *)
(***************************************************************************)
\* the entries of mm that intersect [off, off+len)
Hit(mm, off, len) == {a \in DOMAIN mm : Intersects(a, mm[a].len, off, len)}

\* C21: after erase(off, len) with len > 0 no entry intersects
\* [off, off+len); an entry that lay wholly inside the range is gone, and the
\* splitter was called only for the entries reaching out of the range (once
\* for a prefix, once for a suffix); an entry that did not intersect the
\* range has the same start, length and value.
ErasePost(pre, post, off, len, splits) ==
  /\ Hit(post, off, len) = {}
  /\ \A a \in Hit(pre, off, len) :
       (off <= a /\ a + pre[a].len <= off + len) => a \notin DOMAIN post
  /\ splits = Cardinality({a \in Hit(pre, off, len) : a < off})
                + Cardinality({a \in Hit(pre, off, len) : off + len < a + pre[a].len})
  /\ \A a \in DOMAIN pre \ Hit(pre, off, len) :
       a \in DOMAIN post /\ post[a] = pre[a]

C21_EraseClearsRange ==
  [][(call'.op = "erase" /\ call'.len > 0)
       => ErasePost(m, m', call'.off, call'.len, call'.splits)]_vars

\* an erase has cut the end of one entry, removed a second that lay inside
\* the range and left a third alone
C21_Witness ==
  /\ call.op = "erase" /\ call.len > 0
  /\ call.visited = 2 /\ call.splits = 1
  /\ ext_count(m) = 2
  /\ \E a \in DOMAIN m : a + m[a].len = call.off
  /\ call.off + call.len \in DOMAIN m

\* C22: when erase(off, len) or insert(off, len, v) with len > 0 hits an
\* entry e with e.start < off < e.start + e.len, the map afterwards holds
\* (e.start, off - e.start, S(0, off - e.start, e.value)).
C22_PrefixRemnant ==
  [][(call'.op \in {"erase", "insert"} /\ call'.len > 0)
       => \A a \in DOMAIN m :
            (a < call'.off /\ call'.off < a + m[a].len) =>
              /\ a \in DOMAIN m'
              /\ m'[a] = [len |-> call'.off - a,
                          val |-> splitter(0, call'.off - a, m[a].val)]]_vars

\* an insert over the end of a two-byte entry has left its first byte
C22_Witness ==
  /\ call.op = "insert" /\ call.visited = 1 /\ call.splits = 1
  /\ call.off + call.len \notin DOMAIN m
  /\ call.off - 1 \in DOMAIN m
  /\ m[call.off - 1].len = 1
  /\ ext_count(m) = 2

\* C23: when erase(off, len) or insert(off, len, v) with len > 0 hits an
\* entry e with e.start < off + len < e.start + e.len, the map afterwards
\* holds (off+len, n, S(e.len - n, n, e.value)) with
\* n = e.start + e.len - (off + len): the last n units of e's value.
C23_SuffixRemnant ==
  [][(call'.op \in {"erase", "insert"} /\ call'.len > 0)
       => \A a \in DOMAIN m :
            LET end == call'.off + call'.len
                n == a + m[a].len - end
            IN  (a < end /\ end < a + m[a].len) =>
                  /\ end \in DOMAIN m'
                  /\ m'[end] = [len |-> n,
                                val |-> splitter(m[a].len - n, n, m[a].val)]]_vars

\* an erase inside a three-byte entry has left its first and its last byte
C23_Witness ==
  /\ call.op = "erase" /\ call.len = 1
  /\ call.visited = 1 /\ call.splits = 2
  /\ call.off - 1 \in DOMAIN m /\ m[call.off - 1].len = 1
  /\ call.off + 1 \in DOMAIN m /\ m[call.off + 1].len = 1
  /\ m[call.off - 1].val # m[call.off + 1].val

\* C26: an insert (len > 0) into a region no entry intersects adds exactly
\* one entry and leaves every other entry as it was, also next to an entry
\* with an equal value; and no insert or erase joins entries: every entry
\* afterwards is the inserted one or lies within a single entry from before.
C26_NeverCoalesced ==
  [][(call'.op \in {"erase", "insert"} /\ call'.len > 0)
       => /\ (call'.op = "insert" /\ Hit(m, call'.off, call'.len) = {}) =>
               /\ ext_count(m') = ext_count(m) + 1
               /\ \A a \in DOMAIN m : a \in DOMAIN m' /\ m'[a] = m[a]
          /\ \A a \in DOMAIN m' :
               \/ call'.op = "insert" /\ a = call'.off /\ m'[a].len = call'.len
               \/ \E b \in DOMAIN m : b <= a /\ a + m'[a].len <= b + m[b].len]_vars

\* an insert right behind an entry with the same value has left two entries
C26_Witness ==
  /\ call.op = "insert" /\ call.visited = 0
  /\ ext_count(m) = 2
  /\ \E a \in DOMAIN m : a + m[a].len = call.off /\ m[a].val = call.v

(***************************************************************************)
(* Claims about get_containing_range (SpecQuery) and about inserts over    *)
(* disjoint ranges (SpecDisjoint).                                         *)
(***************************************************************************)
\* the starts a const_iterator yields from b up to e
RECURSIVE walk(_, _, _)
walk(mm, b, e) ==
  IF b >= e THEN << >> ELSE << b >> \o walk(mm, iter_next(mm, b), e)

\* C24: get_containing_range(off, len) with len > 0 returns (b, e) with b not
\* after e; the entries from b up to e are exactly the entries with
\* start < off+len and start+len > off, in ascending start order (an entry
\* ending at off or starting at off+len is not among them); the map is as
\* it was.
C24_ContainingRange ==
  [][(call'.op = "get_containing_range" /\ call'.len > 0)
       => /\ call'.b <= call'.e
          /\ call'.b \in DOMAIN m \cup {MapEnd}
          /\ call'.e \in DOMAIN m \cup {MapEnd}
          /\ LET w == walk(m, call'.b, call'.e)
             IN  /\ Elems(w) = Hit(m, call'.off, call'.len)
                 /\ \A i \in 1 .. Len(w) - 1 : w[i] < w[i + 1]
          /\ m' = m]_vars

\* a query between two entries that touch it has returned the two entries
\* in between
C24_Witness ==
  /\ call.op = "get_containing_range" /\ call.len > 0
  /\ Len(walk(m, call.b, call.e)) = 2
  /\ \E a \in DOMAIN m : a + m[a].len = call.off
  /\ call.off + call.len \in DOMAIN m
  /\ call.e = call.off + call.len

\* C27: after inserts (len > 0) over pairwise disjoint ranges into an empty
\* map, in whatever order, the map holds exactly the inserted (off, len, v),
\* unsplit, and iterates them in ascending offset order.
C27_DisjointInsertsCommute ==
  LET done == inserted(call)
  IN  /\ DOMAIN m = {t[1] : t \in done}
      /\ \A t \in done : m[t[1]] = [len |-> t[2], val |-> t[3]]
      /\ ext_count(m) = Cardinality(done)
      /\ I3(m)

\* three disjoint inserts, the last one between the other two
C27_Witness ==
  /\ Cardinality(inserted(call)) = 3
  /\ ext_count(m) = 3
  /\ \E a, b \in DOMAIN m :
       /\ a + m[a].len = call.off
       /\ b = call.off + call.len

(***************************************************************************)
(* Claims about empty(), empty inserts and delete-then-recreate.           *)
(***************************************************************************)
\* C25: empty() is true on a new transaction, false after any mutation call
\* that completes (nop included), and once false it stays false: a rename
\* takes the source entry away but leaves the target entry.
C25_EmptyUntilFirstCall ==
  [][/\ ncalls = 0 => PGTransaction_empty
     /\ (Called /\ ~aborted') =>
          /\ ~PGTransaction_empty'
          /\ call'.hoid \in DOMAIN op_map'
     /\ ~PGTransaction_empty => ~PGTransaction_empty']_vars

\* a rename has moved the only op of the transaction
C25_Witness ==
  /\ call.op = "rename" /\ ~aborted /\ call.moved
  /\ DOMAIN op_map = {call.hoid}
  /\ ~PGTransaction_empty

\* C28: insert(off, 0, v) leaves the stored entries as they were, so no
\* entry with len = 0 is ever stored.
C28_EmptyInsertIsNoOp ==
  [][(call'.op = "insert" /\ call'.len = 0) => (m' = m /\ I2(m'))]_vars

\* C29: when the op at target is_delete as rename(target, source) is called,
\* the op at target has delete_first = true afterwards, whether or not
\* source had an op.
C29_RenameKeepsPendingDelete ==
  [][(Called /\ call'.op = "rename" /\ ~aborted'
        /\ is_delete(op_at(call'.hoid)))
       => op_map'[call'.hoid].delete_first]_vars

\* the op was removed and then created or cloned again
Recreated(op) == op.init_type.type \in {"Create", "Clone"} /\ op.delete_first

CloneEntries(hoid) ==
  {a \in DOMAIN op_map[hoid].buffer_updates :
     op_map[hoid].buffer_updates[a].val.type = "CloneRange"}

\* C31: every buffer_updates entry (s, l, CloneRange{from, o, n}) has n = l,
\* and each position p it covers was last covered by a clone_range(from, to,
\* fromoff, len, tooff) call with the same from whose source byte for p,
\* p - tooff + fromoff, is o + (p - s): o - s = fromoff - tooff, however
\* often the entry was split.
C31_CloneRangeConsistent ==
  \A h \in DOMAIN op_map :
    \A a \in CloneEntries(h) :
      LET e == op_map[h].buffer_updates[a]
          cells == map_at(bref, h, EmptyMap)
      IN  /\ e.val.len = e.len
          /\ \A p \in a .. a + e.len - 1 :
               /\ p \in DOMAIN cells
               /\ cells[p].type = "CloneRange"
               /\ cells[p].from = e.val.from
               /\ cells[p].offset = Add(e.val.offset, p - a)

\* a clone_range of three bytes has been cut from the front twice: what is
\* left is its last byte, with the source offset moved on by two
C31_Witness ==
  /\ call.op = "write" /\ ~aborted /\ call.off = 1 /\ call.len = 1
  /\ LET bu == op_map[call.hoid].buffer_updates
     IN  /\ DOMAIN bu = {0, 1, 2}
         /\ bu[0].val.type = "Write" /\ bu[0].len = 1
         /\ \E from \in BufHoids : \E fromoff \in FromOffs :
              bu[2] = [len |-> 1,
                       val |-> BufferUpdate_CloneRange(from, fromoff + 2, 1)]

\* the entries of mm that [off, off+len) lies strictly inside
StrictlyAround(mm, off, len) ==
  {a \in DOMAIN mm : a < off /\ off + len < a + mm[a].len}

\* C32: an erase(off, len), len > 0, strictly inside an entry e replaces e by
\* its prefix (e.start, off - e.start) and its suffix (off+len, e.end -
\* (off+len)), each with the value the splitter computes, changes no other
\* entry, and ext_count grows by exactly 1; no erase makes ext_count grow by
\* more than 1 and no insert by more than 2.
C32_ExtCountGrowth ==
  [][/\ call'.op = "erase" => ext_count(m') <= ext_count(m) + 1
     /\ call'.op = "insert" => ext_count(m') <= ext_count(m) + 2
     /\ (call'.op = "erase" /\ call'.len > 0) =>
          \A a \in StrictlyAround(m, call'.off, call'.len) :
            LET end == call'.off + call'.len
                n == a + m[a].len - end
            IN  /\ DOMAIN m' = DOMAIN m \cup {end}
                /\ end \notin DOMAIN m
                /\ m'[a] = [len |-> call'.off - a,
                            val |-> splitter(0, call'.off - a, m[a].val)]
                /\ m'[end] = [len |-> n,
                              val |-> splitter(m[a].len - n, n, m[a].val)]
                /\ \A b \in DOMAIN m \ {a} : m'[b] = m[b]
                /\ ext_count(m') = ext_count(m) + 1]_vars

\* an erase inside the first of two entries has made three of them
C32_Witness ==
  /\ call.op = "erase" /\ call.len = 1 /\ call.off = 1
  /\ call.visited = 1 /\ call.splits = 2
  /\ ext_count(m) = 3
  /\ DOMAIN m = {0, 2, 3}
  /\ m[0].len = 1 /\ m[2].len = 1 /\ m[3].len = 1

\* C33: erase(off, 0) leaves the map as it is, for every off; erase(off, len)
\* with len > 0 over a range no entry intersects, also one that exactly
\* fills the gap between two entries, leaves the map as it is and calls the
\* splitter zero times.
C33_EraseNothingToRemove ==
  [][(call'.op = "erase"
        /\ (call'.len = 0 \/ Hit(m, call'.off, call'.len) = {}))
       => (m' = m /\ call'.splits = 0)]_vars

\* an erase of the gap between two entries has left both as they were
C33_Witness ==
  /\ call.op = "erase" /\ call.len > 0
  /\ call.visited = 0 /\ call.splits = 0
  /\ ext_count(m) = 2
  /\ \E a \in DOMAIN m : a + m[a].len = call.off
  /\ call.off + call.len \in DOMAIN m

\* C34: get_containing_range(off, 0) returns an empty iterator range for
\* every off, also when off lies strictly inside an entry.
C34_EmptyQueryYieldsNothing ==
  [][(call'.op = "get_containing_range" /\ call'.len = 0)
       => call'.b = call'.e]_vars

(***************************************************************************)
(* Claims about the traversal of a graph with cycles (SpecTravLive).       *)
(***************************************************************************)
\* the elements of the lists of dg, list after list
RECURSIVE Children(_, _)
Children(dg, ks) ==
  IF ks = {} THEN << >>
  ELSE LET k == CHOOSE x \in ks : TRUE
       IN  dg[k] \o Children(dg, ks \ {k})

\* what is left to do: a pop for every stack element, and for every
\* reverse-adjacency entry its expansion and a pop for each of its children
TraverseWork ==
  Len(stack) + Cardinality(DOMAIN dgraph) + Len(Children(dgraph, DOMAIN dgraph))

\* C35: safe_create_traverse returns for every op_map, with or without a
\* cycle in the clone/rename graph: every iteration of the loop either
\* consumes one reverse-adjacency entry, which never comes back, or pops one
\* stack element, so the work left shrinks by one each time; no hoid is on
\* the stack or in a child list twice or again after its visit, so every
\* stack element is popped once and every op visited at most once; the
\* traversal leaves op_map as it is; and a traversal that has started ends.
C35_TraverseTerminates ==
  /\ [][pc = "walk" =>
          /\ op_map' = op_map
          /\ DOMAIN dgraph' \subseteq DOMAIN dgraph
          /\ \A k \in DOMAIN dgraph' : dgraph'[k] = dgraph[k]
          /\ stack # << >> => TraverseWork' = TraverseWork - 1
          /\ stack = << >> => pc' = "done"
          /\ NoDuplicates(stack' \o Children(dgraph', DOMAIN dgraph') \o visited')
          /\ ~aborted']_vars
  /\ (pc = "walk") ~> (pc = "done")

\* a traversal of two ops cloned from each other and a third, created one
\* has returned after visiting the third only
C35_Witness ==
  /\ pc = "done" /\ ~aborted
  /\ ~Acyclic(op_map)
  /\ Cardinality(DOMAIN op_map) = 3
  /\ Len(visited) = 1
  /\ Cardinality(DOMAIN dgraph) = 2

(***************************************************************************)
(* Claims about what clone and clone_range leave alone (SpecClone).        *)
(***************************************************************************)
\* C36: clone(target, source) and clone_range(from, to, ...) change no entry
\* of op_map but the one of target, respectively to: an object without an op
\* has none afterwards, the source's or from's included, and every other op
\* is as it was.
C36_CloneTouchesTargetOnly ==
  [][(Called /\ call'.op \in {"clone", "clone_range"})
       => \A h \in Hoids \ {call'.hoid} :
            /\ h \in DOMAIN op_map' <=> h \in DOMAIN op_map
            /\ h \in DOMAIN op_map => op_map'[h] = op_map[h]]_vars

\* a range has been cloned from an object without an op into one object
\* while a third one has an op
C36_Witness ==
  /\ call.op = "clone_range" /\ ~aborted
  /\ call.from \notin DOMAIN op_map
  /\ Cardinality(DOMAIN op_map) = 2
  /\ op_map[call.hoid].buffer_updates[call.off].val.from = call.from

(***************************************************************************)
(* Claims about truncate next to the largest key (SpecTrunc).              *)
(***************************************************************************)
\* what is left of the entries of bu in front of off, computed on the
\* integers
CutAt(bu, off) ==
  [a \in {x \in DOMAIN bu : x < off} |->
     IF a + bu[a].len <= off THEN bu[a]
     ELSE [len |-> off - a, val |-> Splitter(0, off - a, bu[a].val)]]

\* C37: a truncate(hoid, off) that reaches its erase calls erase(off,
\* max - off) for every off in [0, max], max = 2^w - 1: off + len is max
\* unwrapped; with every entry ending at or before max, every sum and
\* difference get_range and erase compute is the one on the integers, no
\* entry reaches beyond off + len, so no suffix is cut; what is left is what
\* lay in front of off, nothing from off on; and truncate(hoid, max) leaves
\* buffer_updates as it is.
C37_TruncateNeverWraps ==
  [][(call'.op = "truncate" /\ ~aborted' /\ ~call'.returned_early)
       => LET off == call'.off
              len == Sub(KeyMax, off)
              bu == op_at(call'.hoid).buffer_updates
              bu2 == op_map'[call'.hoid].buffer_updates
          IN  (\A a \in DOMAIN bu : a + bu[a].len <= KeyMax) =>
                /\ len = KeyMax - off
                /\ Add(off, len) = off + len
                /\ off + len = KeyMax
                /\ \A a \in DOMAIN bu : Add(a, bu[a].len) = a + bu[a].len
                /\ \A a \in range_keys(bu, get_range(bu, off, len)) :
                     /\ a < off => Sub(off, a) = off - a
                     /\ ~(Add(off, len) < Add(a, bu[a].len))
                /\ bu2 = CutAt(bu, off)
                /\ \A a \in DOMAIN bu2 : a + bu2[a].len <= off
                /\ off = KeyMax => bu2 = bu]_vars

\* a truncate to max - 1 has run its erase and left the entry in front
C37_Witness ==
  /\ call.op = "truncate" /\ ~aborted /\ ~call.returned_early
  /\ call.off = KeyMax - 1
  /\ LET bu == op_map[call.hoid].buffer_updates
     IN  /\ DOMAIN bu = {0, KeyMax - 3}
         /\ bu[0].val.type = "Zero"
         /\ bu[KeyMax - 3] = [len |-> 2, val |-> BufferUpdate_Write(Payload(2), 1)]

(***************************************************************************)
(* Claims about repeated calls (SpecRepeat).                               *)
(***************************************************************************)
\* d is the call c made again: the same operation with the same arguments
SameCall(c, d) ==
  /\ c.op \in {"insert", "erase"}
  /\ d.op = c.op /\ d.off = c.off /\ d.len = c.len
  /\ c.op = "insert" => d.v = c.v

\* C38: an erase(off, len) made right after the same erase(off, len), and
\* an insert(off, len, v), len > 0, made right after the same insert(off,
\* len, v), leave the map as the first one left it.
C38_Idempotent ==
  [][SameCall(call, call') => m' = m]_vars

\* an insert into the middle of an entry has been made a second time and
\* has found, and put back, its own entry between the two remnants
C38_Witness ==
  /\ "again" \in DOMAIN call
  /\ call.op = "insert" /\ call.visited = 1 /\ call.splits = 0
  /\ ext_count(m) = 3
  /\ call.off - 1 \in DOMAIN m /\ call.off + call.len \in DOMAIN m
  /\ m[call.off] = [len |-> call.len, val |-> call.v]

====
